---- MODULE Spec2Model ----
(***************************************************************************)
(* Structural reordering of a port-Hamiltonian core (pyphs):               *)
(*   pyphs/misc/tools.py            myrange                                *)
(*   pyphs/core/structure/moves.py  movesquarematrixcolnrow,               *)
(*                                  moveCoreMcolnrow, move_stor, move_diss,*)
(*                                  move_port, move_connector              *)
(*                                                                         *)
(* Python lists are sequences; a Python index k addresses element k+1 of   *)
(* the sequence. Matrices are sequences of rows. The source is Python 2    *)
(* (range returns a list) and core.M / core.Zl are sympy matrices, for     *)
(* which M[rows, cols] with two lists is M.extract(rows, cols) and         *)
(* M.is_zero is "every entry is zero".                                     *)
(***************************************************************************)
EXTENDS Integers, Sequences, FiniteSets

VARIABLES
    core,   \* the Core Container: vectors x, dxH, w, z, u, y, cu, cy, matrices M, Zl
    pre,    \* the core as it was before the last call
    last,   \* the last call: operation, indices, whether it raised, matrices permuted
    rt,     \* <<c>> when the last two calls were move(i, j), move(j, i) on c; else <<>>
    fin,    \* input of the pure function under check (myrange / movesquarematrixcolnrow)
    fout    \* its outcome

vars == <<core, pre, last, rt, fin, fout>>

\* Largest N (list length, matrix order) of the pure-function specifications.
MaxN == 4

\* Largest total number of variables dim(x)+dim(w)+dim(y)+dim(cy) of an initial core.
MaxTotal == 6

(***************************************************************************)
(* Python list primitives used by myrange                                 *)
(***************************************************************************)

\* range(N) of Python 2: the list [0, 1, ..., N-1].
range(N) == [k \in 1..N |-> k - 1]

\* A slice bound normalised as Python does: negative bounds count from the
\* end, and every bound is clipped to [0, len].
SliceBound(k, n) ==
    IF k < 0 THEN (IF k + n < 0 THEN 0 ELSE k + n)
    ELSE (IF k > n THEN n ELSE k)

\* lis[a:b]; never raises.
Slice(lis, a, b) ==
    LET lo == SliceBound(a, Len(lis))
        hi == SliceBound(b, Len(lis))
    IN  IF lo >= hi THEN << >> ELSE SubSeq(lis, lo + 1, hi)

\* lis[a:]
SliceFrom(lis, a) == Slice(lis, a, Len(lis))

\* lis[:b]
SliceTo(lis, b) == Slice(lis, 0, b)

\* lis[k] raises IndexError unless -len <= k < len.
IndexError(lis, k) == k < -Len(lis) \/ k >= Len(lis)

\* lis[k] for an index that does not raise.
GetItem(lis, k) == IF k < 0 THEN lis[k + Len(lis) + 1] ELSE lis[k + 1]

(***************************************************************************)
(* myrange                                                                 *)
(***************************************************************************)

\* myrange raises exactly when it evaluates lis[indi] (both branches do) with
\* indi outside the list; with indi = indf no branch is taken.
myrange_raises(N, indi, indf) ==
    indi # indf /\ IndexError(range(N), indi)

\* Mutant: the first branch slices lis[indi+1:indf] and loses element indf.
myrange_shortslice(N, indi, indf) ==
    LET lis == range(N)
    IN  IF indi < indf
        THEN (SliceTo(lis, indi) \o Slice(lis, indi + 1, indf))
             \o << GetItem(lis, indi) >> \o SliceFrom(lis, indf + 1)
        ELSE IF indi > indf
        THEN SliceTo(lis, indf) \o << GetItem(lis, indi) >>
             \o (Slice(lis, indf, indi) \o SliceFrom(lis, indi + 1))
        ELSE lis

\* Mutant: exchanges the elements at indi and indf instead of shifting the
\* elements between them.
myrange_swap(N, indi, indf) ==
    LET lis == range(N)
    IN  IF indi = indf \/ IndexError(lis, indf) THEN lis
        ELSE [k \in 1..N |->
                IF lis[k] = GetItem(lis, indi) THEN GetItem(lis, indf)
                ELSE IF lis[k] = GetItem(lis, indf) THEN GetItem(lis, indi)
                ELSE lis[k]]

\* Mutant: the second branch cuts at indf+1, so the element lands one slot late.
myrange_latecut(N, indi, indf) ==
    LET lis == range(N)
    IN  IF indi < indf
        THEN (SliceTo(lis, indi) \o Slice(lis, indi + 1, indf + 1))
             \o << GetItem(lis, indi) >> \o SliceFrom(lis, indf + 1)
        ELSE IF indi > indf
        THEN SliceTo(lis, indf + 1) \o << GetItem(lis, indi) >>
             \o (Slice(lis, indf + 1, indi) \o SliceFrom(lis, indi + 1))
        ELSE lis

\* The list myrange returns when it does not raise: deb + eli + end.
myrange(N, indi, indf) ==
    LET lis == range(N)
    IN  IF indi < indf
        THEN (SliceTo(lis, indi) \o Slice(lis, indi + 1, indf + 1))
             \o << GetItem(lis, indi) >> \o SliceFrom(lis, indf + 1)
        ELSE IF indi > indf
        THEN SliceTo(lis, indf) \o << GetItem(lis, indi) >>
             \o (Slice(lis, indf, indi) \o SliceFrom(lis, indi + 1))
        ELSE lis

\* Indices tried on a list of length n: every valid one 0..n-1; n, the first
\* one past the end; -1, which Python takes for the last element; and
\* -n-1, the first one Python rejects below.
Idx(n) == (0 .. n) \cup {0 - 1, 0 - n - 1}

\* 0 <= i, j < n
ValidIdx(n, i, j) == 0 <= i /\ i < n /\ 0 <= j /\ j < n

(***************************************************************************)
(* Specification of myrange as a pure function                             *)
(***************************************************************************)

NoCore == << >>

InitRange ==
    /\ core = NoCore /\ pre = NoCore /\ last = NoCore /\ rt = << >>
    /\ \E N \in 1..MaxN : \E i \in Idx(N), j \in Idx(N) :
          fin = [N |-> N, i |-> i, j |-> j]
    /\ fout = [done |-> FALSE, raised |-> FALSE, val |-> << >>]

ApplyMyrange ==
    /\ ~fout.done
    /\ fout' = IF myrange_raises(fin.N, fin.i, fin.j)
               THEN [done |-> TRUE, raised |-> TRUE, val |-> << >>]
               ELSE [done |-> TRUE, raised |-> FALSE,
                     val |-> myrange(fin.N, fin.i, fin.j)]
    /\ UNCHANGED <<core, pre, last, rt, fin>>

NextRange == ApplyMyrange

SpecRange == InitRange /\ [][NextRange]_vars

\* The call of the pure function has been made with 0 <= i, j < N.
RangeDoneValid ==
    fout.done /\ fin.N >= 1 /\ ValidIdx(fin.N, fin.i, fin.j)

\* C1: for n >= 1 and 0 <= i, j < n, myrange(n, i, j) returns normally a list
\* of length n in which every value of 0..n-1 occurs exactly once.
C1_PermutationValidity ==
    RangeDoneValid =>
        /\ ~fout.raised
        /\ Len(fout.val) = fin.N
        /\ \A v \in 0 .. (fin.N - 1) :
              Cardinality({k \in 1..Len(fout.val) : fout.val[k] = v}) = 1

\* A valid call that moves an element forward over at least two others.
C1_Witness ==
    RangeDoneValid /\ ~fout.raised /\ fin.j >= fin.i + 2 /\ Len(fout.val) = fin.N

\* C2: for n >= 1 and 0 <= i, j < n the result p is the "remove i, reinsert
\* at j" order: p[j] = i; p[k] = k+1 for i <= k < j; p[k] = k-1 for
\* j < k <= i; p[k] = k outside [min(i,j), max(i,j)]; the identity if i = j.
C2_ReferenceOrder ==
    RangeDoneValid =>
        LET p == fout.val
            i == fin.i
            j == fin.j
            lo == IF i < j THEN i ELSE j
            hi == IF i < j THEN j ELSE i
        IN  /\ ~fout.raised
            /\ Len(p) = fin.N
            /\ p[j + 1] = i
            /\ \A k \in 0 .. (fin.N - 1) :
                  /\ (i < j /\ i <= k /\ k < j) => p[k + 1] = k + 1
                  /\ (i > j /\ j < k /\ k <= i) => p[k + 1] = k - 1
                  /\ (k < lo \/ k > hi) => p[k + 1] = k
            /\ (i = j => p = range(fin.N))

\* A valid call that moves an element backward over at least two others and
\* leaves an element before the window in place.
C2_Witness ==
    RangeDoneValid /\ ~fout.raised /\ fin.i >= fin.j + 2 /\ fin.j >= 1
        /\ fout.val[fin.j + 1] = fin.i

(***************************************************************************)
(* Matrices and movesquarematrixcolnrow                                    *)
(***************************************************************************)

\* M.shape[0]
shape0(M) == Len(M)

\* M[rows, cols] of a sympy matrix with two index lists: M.extract(rows, cols),
\* the matrix of the entries M[rows[a], cols[b]].
extract(M, rows, cols) ==
    [a \in 1..Len(rows) |-> [b \in 1..Len(cols) |-> M[rows[a] + 1][cols[b] + 1]]]

\* The n x n matrix whose entries are pairwise distinct and nonzero.
MarkerMat(n) == [a \in 1..n |-> [b \in 1..n |-> (a - 1) * n + b]]

\* The n x n zero matrix.
ZeroMat(n) == [a \in 1..n |-> [b \in 1..n |-> 0]]

\* movesquarematrixcolnrow raises when its call of myrange does.
movesquarematrixcolnrow_raises(M, indi, indf) ==
    myrange_raises(shape0(M), indi, indf)

\* Mutant: only the rows are reindexed, M[new_indices, :].
movesquarematrixcolnrow_rowsonly(M, indi, indf) ==
    LET n == shape0(M)
        new_indices == myrange(n, indi, indf)
    IN  extract(M, new_indices, range(n))

\* Mutant: only the columns are reindexed, M[:, new_indices] (movematrixcols).
movesquarematrixcolnrow_colsonly(M, indi, indf) ==
    LET n == shape0(M)
        new_indices == myrange(n, indi, indf)
    IN  extract(M, range(n), new_indices)

\* The matrix movesquarematrixcolnrow returns when it does not raise.
movesquarematrixcolnrow(M, indi, indf) ==
    LET n == shape0(M)
        new_indices == myrange(n, indi, indf)
    IN  extract(M, new_indices, new_indices)

(***************************************************************************)
(* Specification of movesquarematrixcolnrow as a pure function             *)
(***************************************************************************)

InitMat ==
    /\ core = NoCore /\ pre = NoCore /\ last = NoCore /\ rt = << >>
    /\ \E n \in 1..MaxN : \E M \in {MarkerMat(n), ZeroMat(n)} :
          \E i \in Idx(n), j \in Idx(n) :
             fin = [M |-> M, i |-> i, j |-> j]
    /\ fout = [done |-> FALSE, raised |-> FALSE, val |-> << >>]

ApplyMoveSquare ==
    /\ ~fout.done
    /\ fout' = IF movesquarematrixcolnrow_raises(fin.M, fin.i, fin.j)
               THEN [done |-> TRUE, raised |-> TRUE, val |-> << >>]
               ELSE [done |-> TRUE, raised |-> FALSE,
                     val |-> movesquarematrixcolnrow(fin.M, fin.i, fin.j)]
    /\ UNCHANGED <<core, pre, last, rt, fin>>

NextMat == ApplyMoveSquare

SpecMat == InitMat /\ [][NextMat]_vars

\* movesquarematrixcolnrow has returned from a call with valid indices.
MatDoneValid ==
    fout.done /\ ~fout.raised /\ ValidIdx(shape0(fin.M), fin.i, fin.j)

dims_x(c) == Len(c.x)
dims_w(c) == Len(c.w)
dims_y(c) == Len(c.y)
dims_cy(c) == Len(c.cy)

\* Absolute offset of each category's block in M.
off_stor(c) == 0
off_diss(c) == dims_x(c)
off_port(c) == dims_x(c) + dims_w(c)
off_conn(c) == dims_x(c) + dims_w(c) + dims_y(c)

\* M.is_zero of a sympy matrix with known entries: every entry is zero.
is_zero(M) == \A a \in 1..Len(M) : \A b \in 1..Len(M[a]) : M[a][b] = 0

\* A category vector of n distinct symbols name_0 .. name_(n-1).
Vec(name, n) == [k \in 1..n |-> <<name, k - 1>>]

\* A core as its constructor hands it over: the four categories populated,
\* M of order dim(x)+dim(w)+dim(y)+dim(cy), Zl of order dim(w); _dxH is None
\* (<< >>) or a list (<<list>>).
NewCore(dx, dw, dy, dc, MisZero, ZlisZero, hasdxH) ==
    [ x   |-> Vec("x", dx),
      dxH |-> IF hasdxH THEN << Vec("dxH", dx) >> ELSE << >>,
      w   |-> Vec("w", dw),
      z   |-> Vec("z", dw),
      u   |-> Vec("u", dy),
      y   |-> Vec("y", dy),
      cu  |-> Vec("cu", dc),
      cy  |-> Vec("cy", dc),
      M   |-> IF MisZero THEN ZeroMat(dx + dw + dy + dc)
              ELSE MarkerMat(dx + dw + dy + dc),
      Zl  |-> IF ZlisZero THEN ZeroMat(dw) ELSE MarkerMat(dw) ]

\* [v[el] for el in new_indices]
Reindex(v, new_indices) ==
    [a \in 1..Len(new_indices) |-> GetItem(v, new_indices[a])]

\* Outcome of a call: the core as the call leaves it, whether an exception
\* left the call, and the matrices movesquarematrixcolnrow was called on.
Returned(c, calls) == [core |-> c, raised |-> FALSE, calls |-> calls]
Raised(c, calls) == [core |-> c, raised |-> TRUE, calls |-> calls]

(***************************************************************************)
(* moveCoreMcolnrow and the four category moves                            *)
(***************************************************************************)

\* Mutant: the is_zero test is missing.
moveCoreMcolnrow_nocheck(c, indi, indf) ==
    IF movesquarematrixcolnrow_raises(c.M, indi, indf)
    THEN Raised(c, {"M"})
    ELSE Returned([c EXCEPT !.M = movesquarematrixcolnrow(c.M, indi, indf)], {"M"})

moveCoreMcolnrow(c, indi, indf) ==
    IF ~is_zero(c.M)
    THEN IF movesquarematrixcolnrow_raises(c.M, indi, indf)
         THEN Raised(c, {"M"})
         ELSE Returned([c EXCEPT !.M = movesquarematrixcolnrow(c.M, indi, indf)],
                       {"M"})
    ELSE Returned(c, {})

move_stor(c, indi, indf) ==
    IF myrange_raises(dims_x(c), indi, indf)
    THEN Raised(c, {})
    ELSE LET new_indices == myrange(dims_x(c), indi, indf)
             c1 == [c EXCEPT !.x = Reindex(c.x, new_indices)]
             c2 == IF c1.dxH # << >>
                   THEN [c1 EXCEPT !.dxH = << Reindex(c1.dxH[1], new_indices) >>]
                   ELSE c1
         IN  moveCoreMcolnrow(c2, indi, indf)

\* The Zl step of move_diss, after moveCoreMcolnrow has left outcome r.
diss_Zl(r, indi, indf) ==
    IF r.raised THEN r
    ELSE IF ~is_zero(r.core.Zl)
    THEN IF movesquarematrixcolnrow_raises(r.core.Zl, indi, indf)
         THEN Raised(r.core, r.calls \cup {"Zl"})
         ELSE Returned([r.core EXCEPT
                           !.Zl = movesquarematrixcolnrow(r.core.Zl, indi, indf)],
                       r.calls \cup {"Zl"})
    ELSE r

\* Mutant: M is moved at the category-relative indices, without the dims.x() shift.
move_diss_noshift(c, indi, indf) ==
    IF myrange_raises(dims_w(c), indi, indf)
    THEN Raised(c, {})
    ELSE LET new_indices == myrange(dims_w(c), indi, indf)
             c1 == [c EXCEPT !.w = Reindex(c.w, new_indices)]
             c2 == [c1 EXCEPT !.z = Reindex(c1.z, new_indices)]
         IN  diss_Zl(moveCoreMcolnrow(c2, indi, indf), indi, indf)

\* Mutant: the Zl step is nested under the test of M, and Zl is skipped when
\* M is zero.
move_diss_ZlunderM(c, indi, indf) ==
    IF myrange_raises(dims_w(c), indi, indf)
    THEN Raised(c, {})
    ELSE LET new_indices == myrange(dims_w(c), indi, indf)
             c1 == [c EXCEPT !.w = Reindex(c.w, new_indices)]
             c2 == [c1 EXCEPT !.z = Reindex(c1.z, new_indices)]
             r  == moveCoreMcolnrow(c2, dims_x(c2) + indi, dims_x(c2) + indf)
         IN  IF is_zero(c2.M) THEN r ELSE diss_Zl(r, indi, indf)

move_diss(c, indi, indf) ==
    IF myrange_raises(dims_w(c), indi, indf)
    THEN Raised(c, {})
    ELSE LET new_indices == myrange(dims_w(c), indi, indf)
             c1 == [c EXCEPT !.w = Reindex(c.w, new_indices)]
             c2 == [c1 EXCEPT !.z = Reindex(c1.z, new_indices)]
         IN  diss_Zl(moveCoreMcolnrow(c2, dims_x(c2) + indi, dims_x(c2) + indf),
                     indi, indf)

\* Mutant: M is moved at the connector offset dims.x()+dims.w()+dims.y().
move_port_connoffset(c, indi, indf) ==
    IF myrange_raises(dims_y(c), indi, indf)
    THEN Raised(c, {})
    ELSE LET new_indices == myrange(dims_y(c), indi, indf)
             c1 == [c EXCEPT !.u = Reindex(c.u, new_indices)]
             c2 == [c1 EXCEPT !.y = Reindex(c1.y, new_indices)]
         IN  moveCoreMcolnrow(c2, dims_x(c2) + dims_w(c2) + dims_y(c2) + indi,
                                  dims_x(c2) + dims_w(c2) + dims_y(c2) + indf)

move_port(c, indi, indf) ==
    IF myrange_raises(dims_y(c), indi, indf)
    THEN Raised(c, {})
    ELSE LET new_indices == myrange(dims_y(c), indi, indf)
             c1 == [c EXCEPT !.u = Reindex(c.u, new_indices)]
             c2 == [c1 EXCEPT !.y = Reindex(c1.y, new_indices)]
         IN  moveCoreMcolnrow(c2, dims_x(c2) + dims_w(c2) + indi,
                                  dims_x(c2) + dims_w(c2) + indf)

move_connector(c, indi, indf) ==
    IF myrange_raises(dims_cy(c), indi, indf)
    THEN Raised(c, {})
    ELSE LET new_indices == myrange(dims_cy(c), indi, indf)
             c1 == [c EXCEPT !.cu = Reindex(c.cu, new_indices)]
             c2 == [c1 EXCEPT !.cy = Reindex(c1.cy, new_indices)]
         IN  moveCoreMcolnrow(c2, dims_x(c2) + dims_w(c2) + dims_y(c2) + indi,
                                  dims_x(c2) + dims_w(c2) + dims_y(c2) + indf)

(***************************************************************************)
(* Specification of the core under calls of the four moves                 *)
(***************************************************************************)

Ops == {"move_stor", "move_diss", "move_port", "move_connector"}

\* dim(category) and offset(category) of the category an operation moves.
CatDim(op, c) ==
    CASE op = "move_stor" -> dims_x(c)
      [] op = "move_diss" -> dims_w(c)
      [] op = "move_port" -> dims_y(c)
      [] op = "move_connector" -> dims_cy(c)

CatOff(op, c) ==
    CASE op = "move_stor" -> off_stor(c)
      [] op = "move_diss" -> off_diss(c)
      [] op = "move_port" -> off_port(c)
      [] op = "move_connector" -> off_conn(c)

NoCall == [op |-> "none", i |-> 0, j |-> 0, raised |-> FALSE, calls |-> {}]

\* The last call had both indices in [0, dim(category)).
LastValid == last.op \in Ops /\ ValidIdx(CatDim(last.op, pre), last.i, last.j)

\* The last call had an index outside [0, dim(category)).
LastOutOfRange == last.op \in Ops /\ ~ValidIdx(CatDim(last.op, pre), last.i, last.j)

\* The run goes on while every call so far had valid indices and returned.
\* Nothing in this code catches the exception of a move, which ends the run;
\* and a call with an out-of-range index that returned has reordered the
\* core in a way nothing describes: the exploration stops at both.
Intact == last.op = "none" \/ (LastValid /\ ~last.raised)

\* The first index of the port scenario: move_port(core, 5, 0), dim(port) = 2.
ScenarioIdx == {5}

\* The initial cores: every shape of at most MaxTotal variables with no
\* empty category, M zero or not, Zl zero or not. _dxH (read by move_stor
\* alone) is None in the cores whose Zl (read by move_diss alone) is zero,
\* so each is met in both forms with M zero and with M nonzero.
Init ==
    /\ \E dx \in 1..MaxTotal, dw \in 1..MaxTotal, dy \in 1..MaxTotal,
          dc \in 1..MaxTotal :
          /\ dx + dw + dy + dc <= MaxTotal
          /\ \E MisZero \in BOOLEAN, ZlisZero \in BOOLEAN :
                core = NewCore(dx, dw, dy, dc, MisZero, ZlisZero, ~ZlisZero)
    /\ pre = core
    /\ last = NoCall
    /\ rt = << >>
    /\ fin = << >>
    /\ fout = << >>

\* One call op(core, i, j): the core becomes what the call leaves, whether it
\* returned or raised.
Call(op, i, j, r) ==
    /\ Intact
    /\ core' = r.core
    /\ pre' = core
    /\ last' = [op |-> op, i |-> i, j |-> j, raised |-> r.raised, calls |-> r.calls]
    /\ rt' = IF /\ last.op = op /\ ~last.raised /\ ~r.raised
                /\ last.i = j /\ last.j = i /\ i # j
                /\ ValidIdx(CatDim(op, core), i, j)
             THEN << pre >> ELSE << >>
    /\ UNCHANGED <<fin, fout>>

MoveStor ==
    \E i \in Idx(dims_x(core)), j \in Idx(dims_x(core)) :
        Call("move_stor", i, j, move_stor(core, i, j))

MoveDiss ==
    \E i \in Idx(dims_w(core)), j \in Idx(dims_w(core)) :
        Call("move_diss", i, j, move_diss(core, i, j))

MovePort ==
    \E i \in Idx(dims_y(core)) \cup ScenarioIdx, j \in Idx(dims_y(core)) :
        Call("move_port", i, j, move_port(core, i, j))

MoveConnector ==
    \E i \in Idx(dims_cy(core)), j \in Idx(dims_cy(core)) :
        Call("move_connector", i, j, move_connector(core, i, j))

Next == MoveStor \/ MoveDiss \/ MovePort \/ MoveConnector

Spec == Init /\ [][Next]_vars

(***************************************************************************)
(* Properties of the category moves                                        *)
(***************************************************************************)

\* The category-relative permutation of the last call.
LastPerm == myrange(CatDim(last.op, pre), last.i, last.j)

\* The vectors of the category an operation moves (x and _dxH; w and z;
\* u and y; cu and cy), and the vectors of the three other categories.
CatVecs(op, c) ==
    CASE op = "move_stor" -> << c.x, c.dxH >>
      [] op = "move_diss" -> << c.w, c.z >>
      [] op = "move_port" -> << c.u, c.y >>
      [] op = "move_connector" -> << c.cu, c.cy >>

OtherVecs(op, c) ==
    CASE op = "move_stor" -> << c.w, c.z, c.u, c.y, c.cu, c.cy >>
      [] op = "move_diss" -> << c.x, c.dxH, c.u, c.y, c.cu, c.cy >>
      [] op = "move_port" -> << c.x, c.dxH, c.w, c.z, c.cu, c.cy >>
      [] op = "move_connector" -> << c.x, c.dxH, c.w, c.z, c.u, c.y >>

\* v' = [v[perm[a]] for a], for each vector of the moved category (_dxH: when
\* it is not None, and None stays None).
VecsReindexed(op, c0, c1, perm) ==
    CASE op = "move_stor" ->
            /\ c1.x = Reindex(c0.x, perm)
            /\ c1.dxH = IF c0.dxH = << >> THEN << >>
                        ELSE << Reindex(c0.dxH[1], perm) >>
      [] op = "move_diss" ->
            c1.w = Reindex(c0.w, perm) /\ c1.z = Reindex(c0.z, perm)
      [] op = "move_port" ->
            c1.u = Reindex(c0.u, perm) /\ c1.y = Reindex(c0.y, perm)
      [] op = "move_connector" ->
            c1.cu = Reindex(c0.cu, perm) /\ c1.cy = Reindex(c0.cy, perm)

\* C3: move(core, i, j) followed by move(core, j, i), valid i # j, returns
\* every vector of the category, M and (for move_diss) Zl to their content
\* before the two calls.
C3_InverseRoundTrip ==
    rt # << >> =>
        /\ CatVecs(last.op, core) = CatVecs(last.op, rt[1])
        /\ core.M = rt[1].M
        /\ (last.op = "move_diss" => core.Zl = rt[1].Zl)

\* A round trip whose first call changed M and the category's vectors.
C3_Witness ==
    /\ rt # << >>
    /\ pre.M # rt[1].M
    /\ CatVecs(last.op, pre) # CatVecs(last.op, rt[1])

\* C4 as stated: every call with i or j outside [0, dim(category)) is
\* rejected with an error; none returns normally.
C4_OutOfRangeRejected == LastOutOfRange => last.raised

\* C5: a move on category A with valid indices leaves every entry M[a, b]
\* with a and b both outside A's window [offset(A), offset(A)+dim(A)), every
\* vector of every other category and (A not dissipation) Zl as they were.
C5_CrossCategoryIsolation ==
    LastValid =>
        LET lo == CatOff(last.op, pre)
            hi == CatOff(last.op, pre) + CatDim(last.op, pre)
            outside == {a \in 0 .. (shape0(pre.M) - 1) : a < lo \/ a >= hi}
        IN  /\ shape0(core.M) = shape0(pre.M)
            /\ \A a \in outside : \A b \in outside :
                  core.M[a + 1][b + 1] = pre.M[a + 1][b + 1]
            /\ OtherVecs(last.op, core) = OtherVecs(last.op, pre)
            /\ (last.op # "move_diss" => core.Zl = pre.Zl)

\* A port move that changed M, with the three other categories around it.
C5_Witness ==
    /\ LastValid /\ last.op = "move_port" /\ last.i # last.j
    /\ core.M # pre.M /\ ~is_zero(pre.Zl)

\* The variable at position k (0-based) of the concatenation x + w + y + cy,
\* named by the index it had in that concatenation when the core was built.
VarAt(c, k) ==
    LET all == ((c.x \o c.w) \o c.y) \o c.cy
        v == all[k + 1]
    IN  CASE v[1] = "x" -> v[2]
          [] v[1] = "w" -> dims_x(c) + v[2]
          [] v[1] = "y" -> dims_x(c) + dims_w(c) + v[2]
          [] v[1] = "cy" -> dims_x(c) + dims_w(c) + dims_y(c) + v[2]

\* Each companion vector holds, slot by slot, the companion of the variable
\* of the primary vector.
Companions(c) ==
    /\ Len(c.z) = Len(c.w) /\ \A k \in 1..Len(c.w) : c.z[k][2] = c.w[k][2]
    /\ Len(c.u) = Len(c.y) /\ \A k \in 1..Len(c.y) : c.u[k][2] = c.y[k][2]
    /\ Len(c.cu) = Len(c.cy) /\ \A k \in 1..Len(c.cy) : c.cu[k][2] = c.cy[k][2]
    /\ c.dxH # << >> =>
          /\ Len(c.dxH[1]) = Len(c.x)
          /\ \A k \in 1..Len(c.x) : c.dxH[1][k][2] = c.x[k][2]

\* Row k and column k of a nonzero M denote the variable at position k: the
\* entry at (a, b) is the coupling the constructor stored for that pair.
Paired(c) ==
    LET n == shape0(c.M)
    IN  /\ n = dims_x(c) + dims_w(c) + dims_y(c) + dims_cy(c)
        /\ ~is_zero(c.M) =>
              \A a \in 0 .. (n - 1) : \A b \in 0 .. (n - 1) :
                  c.M[a + 1][b + 1] = VarAt(c, a) * n + VarAt(c, b) + 1

\* C6: a move with valid indices i, j and perm = myrange(dim, i, j) returns
\* with every vector of the category v'[a] = v[perm[a]] and the category's
\* block M'[off+a, off+b] = M[off+perm[a], off+perm[b]]; the diagonal entry
\* travels, M'[off+j, off+j] = M[off+i, off+i]; and after any sequence of
\* valid moves row k and column k of M denote the variable at position k.
C6_SamePermutation ==
    /\ LastValid =>
          LET perm == LastPerm
              off == CatOff(last.op, pre)
              d == CatDim(last.op, pre)
          IN  /\ ~last.raised
              /\ VecsReindexed(last.op, pre, core, perm)
              /\ \A a \in 0 .. (d - 1) : \A b \in 0 .. (d - 1) :
                    core.M[off + a + 1][off + b + 1]
                        = pre.M[off + perm[a + 1] + 1][off + perm[b + 1] + 1]
              /\ core.M[off + last.j + 1][off + last.j + 1]
                    = pre.M[off + last.i + 1][off + last.i + 1]
    /\ Intact => (Paired(core) /\ Companions(core))

\* A dissipation move over a nonzero M that changed w and M, second of a
\* sequence of moves.
C6_Witness ==
    /\ LastValid /\ last.op = "move_diss" /\ last.i # last.j
    /\ ~is_zero(pre.M) /\ core.M # pre.M /\ core.w # pre.w
    /\ pre.x # Vec("x", dims_x(pre))

\* C7: when core.M is zero, a move leaves core.M as it is, still zero, and
\* does not call movesquarematrixcolnrow on it; with valid indices the
\* category's vectors are still permuted.
C7_ZeroFastPath ==
    (last.op \in Ops /\ is_zero(pre.M)) =>
        /\ core.M = pre.M
        /\ is_zero(core.M)
        /\ "M" \notin last.calls
        /\ LastValid =>
              (~last.raised /\ VecsReindexed(last.op, pre, core, LastPerm))

\* A storage move over a zero M that reordered x.
C7_Witness ==
    /\ LastValid /\ last.op = "move_stor" /\ is_zero(pre.M)
    /\ core.x # pre.x /\ core.M = pre.M

\* C8: move_diss with valid indices permutes Zl by the unshifted
\* perm = myrange(dim(w), i, j), Zl'[a, b] = Zl[perm[a], perm[b]]: the mapping
\* applied to w and z and, shifted by dim(x), to the dissipation block of M;
\* the storage block of M is untouched; and Zl is handed to
\* movesquarematrixcolnrow exactly when Zl is not zero, whatever M is.
C8_ZlLocalPermutation ==
    (LastValid /\ last.op = "move_diss") =>
        LET perm == LastPerm
            dx == dims_x(pre)
            dw == dims_w(pre)
        IN  /\ ~last.raised
            /\ shape0(core.Zl) = dw
            /\ \A a \in 1..dw : \A b \in 1..dw :
                  /\ core.Zl[a][b] = pre.Zl[perm[a] + 1][perm[b] + 1]
                  /\ core.M[dx + a][dx + b]
                        = pre.M[dx + perm[a] + 1][dx + perm[b] + 1]
            /\ core.w = Reindex(pre.w, perm)
            /\ core.z = Reindex(pre.z, perm)
            /\ \A a \in 1..dx : \A b \in 1..dx : core.M[a][b] = pre.M[a][b]
            /\ ("Zl" \in last.calls) <=> ~is_zero(pre.Zl)

\* The scenario dim(storage) = 2, dim(dissipation) = 2, move_diss(core, 0, 1)
\* over nonzero M and Zl.
C8_Witness ==
    /\ last.op = "move_diss" /\ last.i = 0 /\ last.j = 1 /\ ~last.raised
    /\ dims_x(pre) = 2 /\ dims_w(pre) = 2
    /\ core.Zl # pre.Zl /\ core.M # pre.M

\* C10: a move that raises leaves every vector, M and Zl as before the call;
\* move_port(core, 5, 0) with dim(port) = 2 raises and leaves core unchanged.
C10_NoPartialMutation ==
    /\ last.raised => core = pre
    /\ (last.op = "move_port" /\ last.i = 5 /\ last.j = 0 /\ dims_y(pre) = 2)
          => (last.raised /\ core = pre)

\* move_port(core, 5, 0) on a core with dim(port) = 2 and a nonzero M.
C10_Witness ==
    /\ last.op = "move_port" /\ last.i = 5 /\ last.j = 0 /\ dims_y(pre) = 2
    /\ ~is_zero(pre.M) /\ last.raised

====
